---- MODULE Spec2Model ----
(***************************************************************************)
(* Real-time chat fan-out and presence of WorkFlow Connect:                *)
(* server/src/controllers/socket.controller.js (initSocket) together with  *)
(* the REST handlers of server/src/controllers/chat.controller.js that     *)
(* change chat membership.  One server process, one Socket.IO namespace.   *)
(* Every `await` of a handler is a step boundary: the storage call takes   *)
(* effect and the continuation runs up to the next await in one step.      *)
(***************************************************************************)
EXTENDS Integers, Sequences, FiniteSets, TLC

\* ---------------------------------------------------------------- bounds
\* rows the Messages table may hold (send_message rows and system rows)
MaxMsgs == 2
\* inbound socket events the server accepts in one behaviour
MaxEvents == 1
\* readings of the server clock after the first
MaxTime == 2
\* rows the Chats table may hold
MaxChats == 2
\* Socket objects one SocketClient creates with io()
MaxSocks == 2
\* callbacks one SocketClient holds for an event at a time
MaxHandlers == 2
\* occurrences of the event the client receives
MaxOcc == 2

\* ------------------------------------------------------------- universes
Users == {"u1", "u2"}
Sockets == {"s1", "s2", "s3"}
\* the chat ids that requests and inbound events name
ChatIds == {1}
\* the server processes behind the load balancer: each runs initSocket and
\* has its own userSockets Map
Procs == {"A", "B"}
\* the user ids POST /chats may name: the identities of the sockets and one
\* user more, who opens no connection
Accounts == Users \cup {"u3"}

\* socket.user, set by the authentication middleware from the handshake
\* token of the physical connection.
SocketUser(s) == IF s = "s3" THEN "u2" ELSE "u1"

VARIABLES
  users,        \* storage: Users table, [Users -> [isOnline]]
  chats,        \* storage: Chats table with the UserChats join, Seq of rows
  messages,     \* storage: Messages table, Seq of rows (index = id)
  userSockets,  \* the Map of initSocket: user id -> Set of socket ids
  pc,           \* position of each connection's handlers
  open,         \* whether the transport of the connection is open
  rooms,        \* Socket.IO rooms each socket has joined (chat:<id>)
  tasks,        \* one handler invocation per inbound event, in arrival
                \* order, each with the await it is suspended at
  emitted,      \* chat and error events the server emitted, in order,
                \* each with the sockets that received it
  presence,     \* user_status_change events the server emitted, in order
  quota,        \* inbound notifications the clients will still send
  now,          \* the server clock, what `new Date()` returns
  stamp,        \* the `new Date()` each connection's pending User.update
                \* was called with
  proc,         \* the server process each physical connection lands on
  peerSockets,  \* the userSockets Map of the second server process
  reply,        \* the latest response of POST /chats, with its request
  server,       \* how far startServer got on each process
  client        \* the SocketClient instance of one browser tab

vars == <<users, chats, messages, userSockets, pc, open, rooms, tasks,
          emitted, presence, quota, now, stamp, proc, peerSockets, reply,
          server, client>>

\* ------------------------------------------------------- storage helpers
ChatExists(c) == c \in DOMAIN chats
hasParticipant(c, u) == u \in chats[c].participants
\* user.getChats(): the chats the user participates in
getChats(u) == {c \in DOMAIN chats : u \in chats[c].participants}

\* ------------------------------------------------------ delivery helpers
\* sockets that are in the namespace: authenticated and not yet closed
Connected == {s \in Sockets : open[s]}
\* io.emit(...)
IoEmitTargets == Connected
\* io.to(`chat:${c}`).emit(...)
RoomTargets(c) == {s \in Connected : c \in rooms[s]}
\* socket.to(`chat:${c}`).emit(...): the room without the sending socket
SocketToTargets(s, c) == RoomTargets(c) \ {s}
\* socket.emit(...)
SocketTargets(s) == {s} \cap Connected

\* what an emit on the process of connection s reaches of `targets`: with
\* io.adapter(createAdapter(pubClient, subClient)) set up, the sockets on
\* every process that set it up; with the default in-memory adapter, the
\* sockets connected to the same process
AdapterTargets(s, targets) ==
  {t \in targets : \/ proc[t] = proc[s]
                   \/ server[proc[s]] = "redis" /\ server[proc[t]] = "redis"}

\* server.listen was reached: the process accepts connections
Listening(p) == server[p] \in {"redis", "local"}

\* an emitted chat or error event: `seq` is the arrival number of the
\* inbound event whose handler emitted it (tasks[seq] names its kind, socket
\* and chat), `to` the sockets that received it
Ev(ev, n, to, m, text) ==
  [ev |-> ev, seq |-> n, to |-> to, msgId |-> m, message |-> text]

\* socket.emit('error', {message})
ErrorEv(n, text) == Ev("error", n, SocketTargets(tasks[n].sock), 0, text)

\* io.emit('user_status_change', {userId, isOnline, lastSeen: new Date()})
StatusEv(s, online) ==
  [by |-> s, to |-> AdapterTargets(s, IoEmitTargets), userId |-> SocketUser(s),
   isOnline |-> online, lastSeen |-> now]

\* ------------------------------------------------------ registry helpers
\* userSockets.get(u).add(s), creating the Set when the key is absent
RegistryAdd(reg, u, s) ==
  IF u \in DOMAIN reg
    THEN [reg EXCEPT ![u] = @ \cup {s}]
    ELSE [x \in DOMAIN reg \cup {u} |-> IF x = u THEN {s} ELSE reg[x]]

\* mutant of IsLastSocket: the size of the Set is not looked at
IsLastSocketAnySize(reg, u, s) == u \in DOMAIN reg

\* userSockets.has(u), then after .delete(s): userSockets.get(u).size === 0
IsLastSocket(reg, u, s) == u \in DOMAIN reg /\ reg[u] \ {s} = {}

\* mutant of RegistryRemove: the key of an emptied Set is never deleted
RegistryRemoveKeepKey(reg, u, s) ==
  IF u \notin DOMAIN reg THEN reg ELSE [reg EXCEPT ![u] = @ \ {s}]

\* userSockets.get(u).delete(s); userSockets.delete(u) when the Set is empty
RegistryRemove(reg, u, s) ==
  IF u \notin DOMAIN reg THEN reg
  ELSE IF IsLastSocket(reg, u, s)
    THEN [x \in DOMAIN reg \ {u} |-> reg[x]]
    ELSE [reg EXCEPT ![u] = @ \ {s}]

\* the userSockets Map of the process a connection landed on
Registry(p) == IF p = "A" THEN userSockets ELSE peerSockets

\* no POST /chats has been answered yet
NoReply == [status |-> 0, chat |-> 0, ids |-> {}, isGroup |-> FALSE]

\* the callbacks the application registers with SocketClient.on
Callbacks == {"f", "g"}

\* new SocketClient(): socket = null, eventHandlers = {}; `socks` are the
\* Socket objects io() has returned so far, each with its state and the
\* listeners attached to it for the event, `calls` how often each callback
\* ran for the latest occurrence of the event, `occ` the occurrences so far
NewClient ==
  [socket |-> 0, eventHandlers |-> <<>>, socks |-> <<>>,
   calls |-> [cb \in Callbacks |-> 0], occ |-> 0]

\* ------------------------------------------------------------------ Init
\* what is not storage, registry or connection state at a fresh start: the
\* clients' event budget, the clock, and every connection landing on "A"
InitEnv(q, where) ==
  /\ quota = q
  /\ now = 0
  /\ stamp = [s \in Sockets |-> 0]
  /\ proc = where
  /\ peerSockets = <<>>
  /\ reply = NoReply
  /\ server = [p \in Procs |-> "redis"]
  /\ client = NewClient

Fresh ==
  /\ users = [u \in Users |-> [isOnline |-> FALSE, lastSeen |-> 0]]
  /\ chats = <<>>
  /\ messages = <<>>
  /\ userSockets = <<>>
  /\ pc = [s \in Sockets |-> "new"]
  /\ open = [s \in Sockets |-> FALSE]
  /\ rooms = [s \in Sockets |-> {}]
  /\ tasks = <<>>
  /\ emitted = <<>>
  /\ presence = <<>>

Init == InitEnv(MaxEvents, [s \in Sockets |-> "A"]) /\ Fresh

\* ---------------------------------------------------------- startServer
\* the entry points the repository holds: server/src/index.js, whose
\* setupRedis catches a failed connect, and the one that connects to Redis
\* inside the try of startServer
Entries == {"index.js", "part_005"}

\* startServer() on process p, run from entry point `entry`, with Redis
\* reachable or not: `await pubClient.connect(); await subClient.connect()`
\* resolve and io.adapter(...) is set; or they reject, and setupRedis logs
\* 'Continuando sin Redis' and returns false, while the other entry point
\* lands in the catch of startServer, which calls process.exit(1).
Start(p, entry, redisUp) ==
  /\ server[p] = "starting"
  /\ server' = [server EXCEPT ![p] =
       IF redisUp THEN "redis"
       ELSE IF entry = "index.js" THEN "local" ELSE "exited"]
  /\ UNCHANGED <<users, chats, messages, userSockets, pc, open, rooms, tasks,
                 emitted, presence, quota, now, stamp, proc, peerSockets,
                 reply, client>>

\* ------------------------------------------------- connection life cycle
\* io.use middleware accepts the token; the connection handler starts and
\* suspends at `await User.update({isOnline: true, lastSeen: new Date()})`.
Connect(s) ==
  /\ Listening(proc[s])
  /\ pc[s] = "new"
  /\ pc' = [pc EXCEPT ![s] = "update"]
  /\ open' = [open EXCEPT ![s] = TRUE]
  /\ stamp' = [stamp EXCEPT ![s] = now]
  /\ UNCHANGED <<users, chats, messages, userSockets, rooms, tasks, emitted,
                 presence, quota, now, proc, peerSockets, reply, server,
                 client>>

\* the handshake tokens a client may present: none, one jwt.verify throws
\* on, a valid one whose user is not in storage, a valid one of a user
Tokens == {"none", "bad", "ghost", "good"}

\* io.use middleware: the Error passed to next(), or "ok" for next()
AuthError(token) ==
  CASE token = "none" -> "No se proporcionó token de autenticación"
    [] token = "bad" -> "Token inválido o expirado"
    [] token = "ghost" -> "Usuario no encontrado"
    [] OTHER -> "ok"

\* mutant of Reject: next(error) is called but the connection is let through
\* to the connection handler, which registers it
RejectButRegister(s, token) ==
  /\ pc[s] = "new"
  /\ AuthError(token) # "ok"
  /\ pc' = [pc EXCEPT ![s] = "rejected"]
  /\ userSockets' = RegistryAdd(userSockets, SocketUser(s), s)
  /\ UNCHANGED <<users, chats, messages, open, rooms, tasks, emitted,
                 presence, quota, now, stamp, proc, peerSockets, reply,
                 server, client>>

\* io.use middleware passes an Error to next(): Socket.IO refuses the
\* connection, the 'connection' handler never runs for it.
Reject(s, token) ==
  /\ Listening(proc[s])
  /\ pc[s] = "new"
  /\ AuthError(token) # "ok"
  /\ pc' = [pc EXCEPT ![s] = "rejected"]
  /\ UNCHANGED <<users, chats, messages, userSockets, open, rooms, tasks,
                 emitted, presence, quota, now, stamp, proc, peerSockets,
                 reply, server, client>>

\* User.update resolved: register the socket, io.emit the online status,
\* suspend at `await user.getChats()`.
ConnRegister(s) ==
  /\ pc[s] = "update"
  /\ users' = [users EXCEPT ![SocketUser(s)] =
                  [isOnline |-> TRUE, lastSeen |-> stamp[s]]]
  /\ IF proc[s] = "A"
       THEN /\ userSockets' = RegistryAdd(userSockets, SocketUser(s), s)
            /\ UNCHANGED peerSockets
       ELSE /\ peerSockets' = RegistryAdd(peerSockets, SocketUser(s), s)
            /\ UNCHANGED userSockets
  /\ presence' = Append(presence, StatusEv(s, TRUE))
  /\ pc' = [pc EXCEPT ![s] = "getChats"]
  /\ UNCHANGED <<chats, messages, open, rooms, tasks, emitted, quota, now,
                 stamp, proc, reply, server, client>>

\* user.getChats() resolved: join one room per chat, attach the handlers.
ConnJoinRooms(s) ==
  /\ pc[s] = "getChats"
  /\ rooms' = [rooms EXCEPT ![s] = @ \cup getChats(SocketUser(s))]
  /\ pc' = [pc EXCEPT ![s] = "active"]
  /\ UNCHANGED <<users, chats, messages, userSockets, open, tasks, emitted,
                 presence, quota, now, stamp, proc, peerSockets, reply,
                 server, client>>

\* The transport closes while the connection handler is still suspended:
\* no 'disconnect' listener is attached yet, Socket.IO leaves the rooms.
CloseEarly(s) ==
  /\ open[s]
  /\ pc[s] \in {"update", "getChats"}
  /\ open' = [open EXCEPT ![s] = FALSE]
  /\ rooms' = [rooms EXCEPT ![s] = {}]
  /\ UNCHANGED <<users, chats, messages, userSockets, pc, tasks, emitted,
                 presence, quota, now, stamp, proc, peerSockets, reply,
                 server, client>>

\* mutant of DisconnectHandler: the key of the identity is deleted and the
\* offline update issued without looking at the Set
DisconnectHandlerNoLookup(s) ==
  /\ IF proc[s] = "A"
       THEN /\ userSockets' = [x \in DOMAIN userSockets \ {SocketUser(s)} |->
                                 userSockets[x]]
            /\ UNCHANGED peerSockets
       ELSE /\ peerSockets' = [x \in DOMAIN peerSockets \ {SocketUser(s)} |->
                                 peerSockets[x]]
            /\ UNCHANGED userSockets
  /\ pc' = [pc EXCEPT ![s] = "offlineUpdate"]
  /\ stamp' = [stamp EXCEPT ![s] = now]

\* the synchronous part of the 'disconnect' handler, on the process of the
\* socket: unregister, and when the Set became empty call
\* `User.update({isOnline: false, lastSeen: new Date()})` and suspend.
DisconnectHandler(s) ==
  LET u == SocketUser(s)
      last == IsLastSocket(Registry(proc[s]), u, s)
  IN /\ IF proc[s] = "A"
          THEN /\ userSockets' = RegistryRemove(userSockets, u, s)
               /\ UNCHANGED peerSockets
          ELSE /\ peerSockets' = RegistryRemove(peerSockets, u, s)
               /\ UNCHANGED userSockets
     /\ pc' = [pc EXCEPT ![s] =
          IF last THEN "offlineUpdate"
          ELSE IF @ = "active" THEN "closed" ELSE @]
     /\ stamp' = IF last THEN [stamp EXCEPT ![s] = now] ELSE stamp

\* 'disconnect' of an active socket: Socket.IO leaves the rooms and runs the
\* handler.
Disconnect(s) ==
  /\ open[s]
  /\ pc[s] = "active"
  /\ open' = [open EXCEPT ![s] = FALSE]
  /\ rooms' = [rooms EXCEPT ![s] = {}]
  /\ DisconnectHandler(s)
  /\ UNCHANGED <<users, chats, messages, tasks, emitted, presence, quota, now,
                 proc, reply, server, client>>

\* a second 'disconnect' notification for a socket whose handler already
\* ran: the handler runs again.
DisconnectAgain(s) ==
  /\ ~open[s]
  /\ pc[s] \in {"offlineUpdate", "closed"}
  /\ quota > 0
  /\ quota' = quota - 1
  /\ DisconnectHandler(s)
  /\ UNCHANGED <<users, chats, messages, open, rooms, tasks, emitted,
                 presence, now, proc, reply, server, client>>

\* User.update({isOnline: false}) resolved: io.emit the offline status.
DisconnectOffline(s) ==
  /\ pc[s] = "offlineUpdate"
  /\ users' = [users EXCEPT ![SocketUser(s)] =
                  [isOnline |-> FALSE, lastSeen |-> stamp[s]]]
  /\ presence' = Append(presence, StatusEv(s, FALSE))
  /\ pc' = [pc EXCEPT ![s] = "closed"]
  /\ UNCHANGED <<chats, messages, userSockets, open, rooms, tasks, emitted,
                 quota, now, stamp, proc, peerSockets, reply, server, client>>

\* time passes on the server clock
Tick ==
  /\ now < MaxTime
  /\ now' = now + 1
  /\ UNCHANGED <<users, chats, messages, userSockets, pc, open, rooms, tasks,
                 emitted, presence, quota, stamp, proc, peerSockets, reply,
                 server, client>>

\* ------------------------------------------------ inbound socket events
\* mutant of Active: the listeners are attached before the first await of
\* the connection handler
ActiveOnceOpen(s) == open[s]

\* the handlers are attached (the connection handler ran to its end) and
\* the transport is open
Active(s) == open[s] /\ pc[s] = "active"

\* the handler invocation of a newly arrived event, suspended at `at`
Task(kind, s, c, at) ==
  [kind |-> kind, sock |-> s, chatId |-> c, at |-> at, msgId |-> 0]

\* the arrival numbers an inbound event can get
TaskIds == 1..(MaxEvents + 1)

Pending(n, kind, at) ==
  n \in DOMAIN tasks /\ tasks[n].kind = kind /\ tasks[n].at = at

\* the inbound events the connection handler attaches a listener for
Kinds == {"send_message", "typing", "mark_read", "join_chat"}

\* an event of an accepted connection arrives while the connection handler
\* is still suspended at User.update or user.getChats: no listener is
\* attached yet (they are attached from line 75 on), the event is dropped.
EarlyEvent(s, kind, c) ==
  /\ open[s]
  /\ pc[s] \in {"update", "getChats"}
  /\ quota > 0
  /\ quota' = quota - 1
  /\ tasks' = Append(tasks, Task(kind, s, c, "dropped"))
  /\ UNCHANGED <<users, chats, messages, userSockets, pc, open, rooms,
                 emitted, presence, now, stamp, proc, peerSockets, reply,
                 server, client>>

\* 'send_message' arrives: the handler suspends at `await Chat.findByPk`.
SendMessage(s, c) ==
  /\ Active(s)
  /\ quota > 0
  /\ quota' = quota - 1
  /\ tasks' = Append(tasks, Task("send_message", s, c, "findChat"))
  /\ UNCHANGED <<users, chats, messages, userSockets, pc, open, rooms,
                 emitted, presence, now, stamp, proc, peerSockets, reply,
                 server, client>>

\* Chat.findByPk resolved: 'Chat no encontrado' or go on to hasParticipant.
SendFindChat(n) ==
  /\ Pending(n, "send_message", "findChat")
  /\ IF ChatExists(tasks[n].chatId)
       THEN /\ tasks' = [tasks EXCEPT ![n].at = "hasParticipant"]
            /\ UNCHANGED emitted
       ELSE /\ tasks' = [tasks EXCEPT ![n].at = "done"]
            /\ emitted' = Append(emitted, ErrorEv(n, "Chat no encontrado"))
  /\ UNCHANGED <<users, chats, messages, userSockets, pc, open, rooms,
                 presence, quota, now, stamp, proc, peerSockets, reply,
                 server, client>>

\* mutant of SendHasParticipant: the result of the check is ignored
SendHasParticipantNoCheck(n) ==
  /\ Pending(n, "send_message", "hasParticipant")
  /\ tasks' = [tasks EXCEPT ![n].at = "create"]
  /\ UNCHANGED <<users, chats, messages, userSockets, pc, open, rooms,
                 emitted, presence, quota, now, stamp, proc, peerSockets,
                 reply, server, client>>

\* chat.hasParticipant resolved: 'No tienes acceso' or go on to create.
SendHasParticipant(n) ==
  /\ Pending(n, "send_message", "hasParticipant")
  /\ IF hasParticipant(tasks[n].chatId, SocketUser(tasks[n].sock))
       THEN /\ tasks' = [tasks EXCEPT ![n].at = "create"]
            /\ UNCHANGED emitted
       ELSE /\ tasks' = [tasks EXCEPT ![n].at = "done"]
            /\ emitted' =
                 Append(emitted, ErrorEv(n, "No tienes acceso a este chat"))
  /\ UNCHANGED <<users, chats, messages, userSockets, pc, open, rooms,
                 presence, quota, now, stamp, proc, peerSockets, reply,
                 server, client>>

\* mutant of SendCreate: the handler goes on without the row being stored
SendCreateNoStore(n) ==
  /\ Pending(n, "send_message", "create")
  /\ Len(messages) < MaxMsgs
  /\ tasks' = [tasks EXCEPT ![n].at = "save", ![n].msgId = Len(messages) + 1]
  /\ UNCHANGED <<users, chats, messages, userSockets, pc, open, rooms,
                 emitted, presence, quota, now, stamp, proc, peerSockets,
                 reply, server, client>>

\* Message.create resolved: the row exists; chat.save() is issued.
SendCreate(n) ==
  /\ Pending(n, "send_message", "create")
  /\ Len(messages) < MaxMsgs
  /\ messages' = Append(messages,
       [chatId |-> tasks[n].chatId, userId |-> SocketUser(tasks[n].sock),
        read |-> FALSE])
  /\ tasks' = [tasks EXCEPT ![n].at = "save", ![n].msgId = Len(messages) + 1]
  /\ UNCHANGED <<users, chats, userSockets, pc, open, rooms, emitted,
                 presence, quota, now, stamp, proc, peerSockets, reply,
                 server, client>>

\* chat.save() resolved: lastMessageAt stored; Message.findByPk is issued.
SendSave(n) ==
  /\ Pending(n, "send_message", "save")
  /\ chats' = [chats EXCEPT ![tasks[n].chatId].lastMessageAt = tasks[n].msgId]
  /\ tasks' = [tasks EXCEPT ![n].at = "reload"]
  /\ UNCHANGED <<users, messages, userSockets, pc, open, rooms, emitted,
                 presence, quota, now, stamp, proc, peerSockets, reply,
                 server, client>>

\* Message.findByPk resolved: io.to(room).emit('new_message').
SendBroadcast(n) ==
  /\ Pending(n, "send_message", "reload")
  /\ emitted' = Append(emitted,
       Ev("new_message", n,
          AdapterTargets(tasks[n].sock, RoomTargets(tasks[n].chatId)),
          tasks[n].msgId, ""))
  /\ tasks' = [tasks EXCEPT ![n].at = "done"]
  /\ UNCHANGED <<users, chats, messages, userSockets, pc, open, rooms,
                 presence, quota, now, stamp, proc, peerSockets, reply,
                 server, client>>

\* 'typing': synchronous, socket.to(room).emit('user_typing').
Typing(s, c) ==
  /\ Active(s)
  /\ quota > 0
  /\ quota' = quota - 1
  /\ tasks' = Append(tasks, Task("typing", s, c, "done"))
  /\ emitted' = Append(emitted,
       Ev("user_typing", Len(tasks) + 1,
          AdapterTargets(s, SocketToTargets(s, c)), 0, ""))
  /\ UNCHANGED <<users, chats, messages, userSockets, pc, open, rooms,
                 presence, now, stamp, proc, peerSockets, reply, server,
                 client>>

\* 'mark_read' arrives: the handler suspends at `await Message.update`.
MarkRead(s, c) ==
  /\ Active(s)
  /\ quota > 0
  /\ quota' = quota - 1
  /\ tasks' = Append(tasks, Task("mark_read", s, c, "update"))
  /\ UNCHANGED <<users, chats, messages, userSockets, pc, open, rooms,
                 emitted, presence, now, stamp, proc, peerSockets, reply,
                 server, client>>

\* Message.update({read: true}, {where: {chatId, userId: {[Op.ne]: u},
\* read: false}})
MarkMessagesRead(msgs, c, u) ==
  [i \in DOMAIN msgs |->
     IF msgs[i].chatId = c /\ msgs[i].userId # u /\ ~msgs[i].read
       THEN [msgs[i] EXCEPT !.read = TRUE]
       ELSE msgs[i]]

\* Message.update resolved: socket.to(room).emit('messages_read').
MarkReadDone(n) ==
  /\ Pending(n, "mark_read", "update")
  /\ messages' =
       MarkMessagesRead(messages, tasks[n].chatId, SocketUser(tasks[n].sock))
  /\ emitted' = Append(emitted,
       Ev("messages_read", n,
          AdapterTargets(tasks[n].sock,
            SocketToTargets(tasks[n].sock, tasks[n].chatId)), 0, ""))
  /\ tasks' = [tasks EXCEPT ![n].at = "done"]
  /\ UNCHANGED <<users, chats, userSockets, pc, open, rooms, presence, quota,
                 now, stamp, proc, peerSockets, reply, server, client>>

\* 'join_chat' arrives: the handler suspends at `await Chat.findByPk`.
JoinChat(s, c) ==
  /\ Active(s)
  /\ quota > 0
  /\ quota' = quota - 1
  /\ tasks' = Append(tasks, Task("join_chat", s, c, "findChat"))
  /\ UNCHANGED <<users, chats, messages, userSockets, pc, open, rooms,
                 emitted, presence, now, stamp, proc, peerSockets, reply,
                 server, client>>

\* mutant of JoinFindChat: the socket joins the room before the lookup
\* result is looked at
JoinFindChatJoinFirst(n) ==
  /\ Pending(n, "join_chat", "findChat")
  /\ rooms' = [rooms EXCEPT ![tasks[n].sock] = @ \cup {tasks[n].chatId}]
  /\ IF ChatExists(tasks[n].chatId)
       THEN /\ tasks' = [tasks EXCEPT ![n].at = "hasParticipant"]
            /\ UNCHANGED emitted
       ELSE /\ tasks' = [tasks EXCEPT ![n].at = "done"]
            /\ emitted' = Append(emitted, ErrorEv(n, "Chat no encontrado"))
  /\ UNCHANGED <<users, chats, messages, userSockets, pc, open, presence,
                 quota, now, stamp, proc, peerSockets, reply, server, client>>

\* Chat.findByPk resolved: 'Chat no encontrado' or go on to hasParticipant.
JoinFindChat(n) ==
  /\ Pending(n, "join_chat", "findChat")
  /\ IF ChatExists(tasks[n].chatId)
       THEN /\ tasks' = [tasks EXCEPT ![n].at = "hasParticipant"]
            /\ UNCHANGED emitted
       ELSE /\ tasks' = [tasks EXCEPT ![n].at = "done"]
            /\ emitted' = Append(emitted, ErrorEv(n, "Chat no encontrado"))
  /\ UNCHANGED <<users, chats, messages, userSockets, pc, open, rooms,
                 presence, quota, now, stamp, proc, peerSockets, reply,
                 server, client>>

\* mutant of JoinHasParticipant: the socket joins whatever the check says
JoinHasParticipantNoCheck(n) ==
  /\ Pending(n, "join_chat", "hasParticipant")
  /\ tasks' = [tasks EXCEPT ![n].at = "done"]
  /\ rooms' = [rooms EXCEPT ![tasks[n].sock] = @ \cup {tasks[n].chatId}]
  /\ UNCHANGED <<users, chats, messages, userSockets, pc, open, emitted,
                 presence, quota, now, stamp, proc, peerSockets, reply,
                 server, client>>

\* mutant of JoinHasParticipant: after socket.join the handler replays the
\* latest stored message of the chat to the joining socket
JoinHasParticipantReplay(n) ==
  /\ Pending(n, "join_chat", "hasParticipant")
  /\ tasks' = [tasks EXCEPT ![n].at = "done"]
  /\ IF hasParticipant(tasks[n].chatId, SocketUser(tasks[n].sock))
       THEN /\ rooms' = [rooms EXCEPT ![tasks[n].sock] = @ \cup
                                                 {tasks[n].chatId}]
            /\ emitted' =
                 IF \E m \in DOMAIN messages :
                      messages[m].chatId = tasks[n].chatId
                   THEN Append(emitted,
                          Ev("new_message", n, SocketTargets(tasks[n].sock),
                             CHOOSE m \in DOMAIN messages :
                               messages[m].chatId = tasks[n].chatId, ""))
                   ELSE emitted
       ELSE /\ emitted' =
                 Append(emitted, ErrorEv(n, "No tienes acceso a este chat"))
            /\ UNCHANGED rooms
  /\ UNCHANGED <<users, chats, messages, userSockets, pc, open, presence,
                 quota, now, stamp, proc, peerSockets, reply, server, client>>

\* chat.hasParticipant resolved: error, or socket.join(`chat:${chatId}`).
JoinHasParticipant(n) ==
  /\ Pending(n, "join_chat", "hasParticipant")
  /\ tasks' = [tasks EXCEPT ![n].at = "done"]
  /\ IF hasParticipant(tasks[n].chatId, SocketUser(tasks[n].sock))
       THEN /\ rooms' = [rooms EXCEPT ![tasks[n].sock] = @ \cup
                                                 {tasks[n].chatId}]
            /\ UNCHANGED emitted
       ELSE /\ emitted' =
                 Append(emitted, ErrorEv(n, "No tienes acceso a este chat"))
            /\ UNCHANGED rooms
  /\ UNCHANGED <<users, chats, messages, userSockets, pc, open, presence,
                 quota, now, stamp, proc, peerSockets, reply, server, client>>

\* --------------------------------------- rejected storage calls, payloads
\* the awaits of the send_message handler
SendAwaits == {"findChat", "hasParticipant", "create", "save", "reload"}

\* an awaited storage call of send_message rejects: the catch block logs and
\* emits 'error' {message: 'Error al enviar mensaje'} to the sender.
SendFail(n) ==
  /\ n \in DOMAIN tasks
  /\ tasks[n].kind = "send_message"
  /\ tasks[n].at \in SendAwaits
  /\ tasks' = [tasks EXCEPT ![n].at = "failed"]
  /\ emitted' = Append(emitted, ErrorEv(n, "Error al enviar mensaje"))
  /\ UNCHANGED <<users, chats, messages, userSockets, pc, open, rooms,
                 presence, quota, now, stamp, proc, peerSockets, reply,
                 server, client>>

\* Message.update of mark_read rejects: the catch block only logs.
MarkReadFail(n) ==
  /\ Pending(n, "mark_read", "update")
  /\ tasks' = [tasks EXCEPT ![n].at = "failed"]
  /\ UNCHANGED <<users, chats, messages, userSockets, pc, open, rooms,
                 emitted, presence, quota, now, stamp, proc, peerSockets,
                 reply, server, client>>

\* an awaited storage call of join_chat rejects: the catch block logs and
\* emits 'error' {message: 'Error al unirse al chat'} to the sender.
JoinFail(n) ==
  /\ n \in DOMAIN tasks
  /\ tasks[n].kind = "join_chat"
  /\ tasks[n].at \in {"findChat", "hasParticipant"}
  /\ tasks' = [tasks EXCEPT ![n].at = "failed"]
  /\ emitted' = Append(emitted, ErrorEv(n, "Error al unirse al chat"))
  /\ UNCHANGED <<users, chats, messages, userSockets, pc, open, rooms,
                 presence, quota, now, stamp, proc, peerSockets, reply,
                 server, client>>

\* an event that arrives without a payload object: `const {chatId} = data`
\* throws a TypeError before the first await; 0 stands for the absent chat id
NoPayload(kind, s) == Task(kind, s, 0, "failed")

\* 'send_message' without payload: thrown inside try, caught, error emitted.
SendMessageNoPayload(s) ==
  /\ Active(s)
  /\ quota > 0
  /\ quota' = quota - 1
  /\ tasks' = Append(tasks, NoPayload("send_message", s))
  /\ emitted' = Append(emitted,
       Ev("error", Len(tasks) + 1, SocketTargets(s), 0,
          "Error al enviar mensaje"))
  /\ UNCHANGED <<users, chats, messages, userSockets, pc, open, rooms,
                 presence, now, stamp, proc, peerSockets, reply, server,
                 client>>

\* 'mark_read' without payload: thrown inside try, caught, only logged.
MarkReadNoPayload(s) ==
  /\ Active(s)
  /\ quota > 0
  /\ quota' = quota - 1
  /\ tasks' = Append(tasks, NoPayload("mark_read", s))
  /\ UNCHANGED <<users, chats, messages, userSockets, pc, open, rooms,
                 emitted, presence, now, stamp, proc, peerSockets, reply,
                 server, client>>

\* 'join_chat' without payload: thrown inside try, caught, error emitted.
JoinChatNoPayload(s) ==
  /\ Active(s)
  /\ quota > 0
  /\ quota' = quota - 1
  /\ tasks' = Append(tasks, NoPayload("join_chat", s))
  /\ emitted' = Append(emitted,
       Ev("error", Len(tasks) + 1, SocketTargets(s), 0,
          "Error al unirse al chat"))
  /\ UNCHANGED <<users, chats, messages, userSockets, pc, open, rooms,
                 presence, now, stamp, proc, peerSockets, reply, server,
                 client>>

\* 'typing' without payload: the listener has no try/catch, the TypeError
\* leaves it as an uncaught exception and no 'uncaughtException' listener is
\* installed: the Node process of the socket exits.  Its connections drop,
\* its Map and rooms are gone, its suspended handlers never resume; no
\* 'disconnect' handler runs, storage keeps what it had.
TypingNoPayload(s) ==
  /\ Active(s)
  /\ quota > 0
  /\ quota' = quota - 1
  /\ tasks' = Append([n \in DOMAIN tasks |->
                        IF proc[tasks[n].sock] = proc[s]
                             /\ tasks[n].at \notin {"done", "failed"}
                          THEN [tasks[n] EXCEPT !.at = "lost"]
                          ELSE tasks[n]],
                     Task("typing", s, 0, "crashed"))
  /\ open' = [x \in Sockets |-> open[x] /\ proc[x] # proc[s]]
  /\ rooms' = [x \in Sockets |-> IF proc[x] = proc[s] THEN {} ELSE rooms[x]]
  /\ pc' = [x \in Sockets |->
              IF proc[x] = proc[s] /\ pc[x] # "new" THEN "crashed" ELSE pc[x]]
  /\ IF proc[s] = "A"
       THEN userSockets' = <<>> /\ UNCHANGED peerSockets
       ELSE peerSockets' = <<>> /\ UNCHANGED userSockets
  /\ UNCHANGED <<users, chats, messages, emitted, presence, now, stamp, proc,
                 reply, server, client>>

\* ------------------------------------------------ client: lib/socket.ts
\* what the client's methods leave alone: everything on the server side
serverVars == <<users, chats, messages, userSockets, pc, open, rooms, tasks,
                emitted, presence, quota, now, stamp, proc, peerSockets,
                reply, server>>

\* how many listeners (or registrations) of a list are the callback cb
Count(list, cb) == Cardinality({i \in DOMAIN list : list[i] = cb})

\* index = indexOf(cb); if (index !== -1) splice(index, 1)
RemoveFirst(list, cb) ==
  IF Count(list, cb) = 0 THEN list
  ELSE LET k == CHOOSE i \in DOMAIN list :
                  list[i] = cb /\ \A j \in 1..(i - 1) : list[j] # cb
       IN [i \in 1..(Len(list) - 1) |->
             IF i < k THEN list[i] ELSE list[i + 1]]

\* this.socket && this.socket.connected
ClientIsConnected ==
  client.socket # 0 /\ client.socks[client.socket].state = "connected"

\* connect(token) when not connected: this.socket = io(...), a new Socket
\* that starts connecting; the Socket held before is neither closed nor
\* stripped of its listeners.
ClientConnect ==
  /\ ~ClientIsConnected
  /\ Len(client.socks) < MaxSocks
  /\ client' = [client EXCEPT
       !.socks = Append(@, [state |-> "connecting", listeners |-> <<>>]),
       !.socket = Len(client.socks) + 1]
  /\ UNCHANGED serverVars

\* the server accepts the handshake of a Socket: 'connect'
ClientConnected(k) ==
  /\ k \in DOMAIN client.socks
  /\ client.socks[k].state = "connecting"
  /\ client' = [client EXCEPT !.socks[k].state = "connected"]
  /\ UNCHANGED serverVars

\* disconnect(): closes this.socket, this.socket = null, eventHandlers = {}
ClientDisconnect ==
  /\ client.socket # 0
  /\ client' = [client EXCEPT
       !.socks[client.socket].state = "closed",
       !.socket = 0,
       !.eventHandlers = <<>>]
  /\ UNCHANGED serverVars

\* on(event, cb): push the callback; attach a listener if there is a socket
ClientOn(cb) ==
  /\ Len(client.eventHandlers) < MaxHandlers
  /\ client' = [client EXCEPT
       !.eventHandlers = Append(@, cb),
       !.socks = IF client.socket = 0 THEN @
                 ELSE [@ EXCEPT ![client.socket].listeners = Append(@, cb)]]
  /\ UNCHANGED serverVars

\* off(event, cb): splice the callback out; if there is a socket,
\* socket.off(event) and attach a listener per remaining callback
ClientOff(cb) ==
  /\ client.eventHandlers # <<>>
  /\ LET rest == RemoveFirst(client.eventHandlers, cb) IN
     client' = [client EXCEPT
       !.eventHandlers = rest,
       !.socks = IF client.socket = 0 THEN @
                 ELSE [@ EXCEPT ![client.socket].listeners = rest]]
  /\ UNCHANGED serverVars

\* 'reconnect' fires on a connected Socket (whether the library emits it on
\* the Socket depends on its version): reattachEventHandlers() puts one
\* listener per held callback on this.socket, if there is one.
ClientReconnect(k) ==
  /\ k \in DOMAIN client.socks
  /\ client.socks[k].state = "connected"
  /\ client.socket # 0
  /\ client' = [client EXCEPT
       !.socks[client.socket].listeners = client.eventHandlers]
  /\ UNCHANGED serverVars

\* the server sends an occurrence of the event on a connected Socket: each
\* listener attached to it runs its callback
ClientReceive(k) ==
  /\ k \in DOMAIN client.socks
  /\ client.socks[k].state = "connected"
  /\ client.occ < MaxOcc
  /\ client' = [client EXCEPT
       !.calls = [cb \in Callbacks |-> Count(client.socks[k].listeners, cb)],
       !.occ = @ + 1]
  /\ UNCHANGED serverVars

\* ------------------------------------------------- REST: chat.controller
\* Message.create({content, chatId, userId: 'system'}) of addParticipant
\* and leaveChat; it comes after the participant row has been changed.
SystemMessage(c) == [chatId |-> c, userId |-> "system", read |-> FALSE]

\* Chat.findOne({include: participants where id in ids, where: {isGroup:
\* false}}): the candidates; no order is given, any of them may be returned.
FindOneCandidates(ids) ==
  {c \in DOMAIN chats :
     ~chats[c].isGroup /\ chats[c].participants \cap ids # {}}

\* POST /chats: the whole handler; `reply` keeps the status, the chat
\* returned and the request (participantIds with the requester, isGroup)
createChat(u, participantIds, isGroup) ==
  LET ids == participantIds \cup {u}
      cands == FindOneCandidates(ids)
      lookup == ~isGroup /\ Cardinality(ids) = 2
      create ==
        /\ Len(chats) < MaxChats
        /\ chats' = Append(chats,
             [isGroup |-> isGroup, participants |-> ids,
              lastMessageAt |-> 0])
        /\ reply' = [status |-> 201, chat |-> Len(chats) + 1, ids |-> ids,
                     isGroup |-> isGroup]
  IN /\ \/ /\ lookup /\ cands # {}
           /\ \E c \in cands :
                IF Cardinality(chats[c].participants) = 2
                  THEN /\ UNCHANGED chats
                       /\ reply' = [status |-> 200, chat |-> c, ids |-> ids,
                                    isGroup |-> isGroup]
                  ELSE create
        \/ /\ ~(lookup /\ cands # {})
           /\ create
     /\ UNCHANGED <<users, messages, userSockets, pc, open, rooms, tasks,
                    emitted, presence, quota, now, stamp, proc, peerSockets,
                    server, client>>

\* POST /chats/:chatId/participants
addParticipant(req, c, p) ==
  /\ ChatExists(c)
  /\ chats[c].isGroup
  /\ hasParticipant(c, req)
  /\ ~hasParticipant(c, p)
  /\ Len(messages) < MaxMsgs
  /\ chats' = [chats EXCEPT ![c].participants = @ \cup {p}]
  /\ messages' = Append(messages, SystemMessage(c))
  /\ UNCHANGED <<users, userSockets, pc, open, rooms, tasks, emitted,
                 presence, quota, now, stamp, proc, peerSockets, reply,
                 server, client>>

\* DELETE /chats/:chatId/leave
leaveChat(u, c) ==
  /\ ChatExists(c)
  /\ hasParticipant(c, u)
  /\ chats[c].isGroup
  /\ Len(messages) < MaxMsgs
  /\ chats' = [chats EXCEPT ![c].participants = @ \ {u}]
  /\ messages' = Append(messages, SystemMessage(c))
  /\ UNCHANGED <<users, userSockets, pc, open, rooms, tasks, emitted,
                 presence, quota, now, stamp, proc, peerSockets, reply,
                 server, client>>

\* ------------------------------------------------------- specifications
Lifecycle ==
  \E s \in Sockets :
    \/ Connect(s)
    \/ ConnRegister(s)
    \/ ConnJoinRooms(s)
    \/ CloseEarly(s)
    \/ Disconnect(s)
    \/ DisconnectOffline(s)

Inbound ==
  \/ \E s \in Sockets, c \in ChatIds :
       \/ SendMessage(s, c)
       \/ Typing(s, c)
       \/ MarkRead(s, c)
       \/ JoinChat(s, c)
  \/ \E n \in TaskIds :
       \/ SendFindChat(n)
       \/ SendHasParticipant(n)
       \/ SendCreate(n)
       \/ SendSave(n)
       \/ SendBroadcast(n)
       \/ MarkReadDone(n)
       \/ JoinFindChat(n)
       \/ JoinHasParticipant(n)

\* Presence: the connection life cycle of every socket from a fresh start.
Next == Lifecycle

Spec == Init /\ [][Next]_vars

\* Messaging: u1 created the group chat 1 alone (POST /chats), then s1, s2
\* (u1) and s3 (u2) connected and are active; their ids are never reused.
ActiveChat ==
  /\ users = [u \in Users |-> [isOnline |-> TRUE, lastSeen |-> 0]]
  /\ chats = <<[isGroup |-> TRUE, participants |-> {"u1"},
                lastMessageAt |-> 0]>>
  /\ messages = <<>>
  /\ userSockets = [u \in Users |->
                      IF u = "u1" THEN {"s1", "s2"} ELSE {"s3"}]
  /\ pc = [s \in Sockets |-> "active"]
  /\ open = [s \in Sockets |-> TRUE]
  /\ rooms = [s \in Sockets |-> IF SocketUser(s) = "u1" THEN {1} ELSE {}]
  /\ tasks = <<>>
  /\ emitted = <<>>
  /\ presence =
       <<[by |-> "s1", to |-> {"s1"}, userId |-> "u1", isOnline |-> TRUE,
          lastSeen |-> 0],
         [by |-> "s2", to |-> {"s1", "s2"}, userId |-> "u1",
          isOnline |-> TRUE, lastSeen |-> 0],
         [by |-> "s3", to |-> {"s1", "s2", "s3"}, userId |-> "u2",
          isOnline |-> TRUE, lastSeen |-> 0]>>

InitChat == InitEnv(MaxEvents, [s \in Sockets |-> "A"]) /\ ActiveChat

Membership ==
  \/ \E u \in Users, c \in ChatIds, p \in Users : addParticipant(u, c, p)
  \/ \E u \in Users, c \in ChatIds : leaveChat(u, c)

Closing == \E s \in Sockets : Disconnect(s) \/ DisconnectOffline(s)

NextChat == Inbound \/ Membership \/ Closing

SpecChat == InitChat /\ [][NextChat]_vars

\* The gateway's edges: refused handshakes and repeated 'disconnect'
\* notifications next to the connection life cycle, from a fresh start.
Rejects == \E s \in Sockets, token \in Tokens : Reject(s, token)

Repeats == \E s \in Sockets : DisconnectAgain(s)

NextGate == Lifecycle \/ Rejects \/ Repeats

SpecGate == Init /\ [][NextGate]_vars

\* Two processes: from a fresh start, s2 lands on process "B", s1 and s3 on
\* "A"; the Redis adapter carries io.emit to the sockets of both.
InitMulti ==
  InitEnv(MaxEvents, [s \in Sockets |-> IF s = "s2" THEN "B" ELSE "A"])
    /\ Fresh

SpecMulti == InitMulti /\ [][Lifecycle]_vars

\* Last seen: the three active connections of InitChat close while the
\* server clock advances.
NextClock == Closing \/ Tick

SpecClock == InitChat /\ [][NextClock]_vars

\* Sequences of events: the state of InitChat with clients that send one
\* inbound event more, and no membership change or disconnect.
InitSeq == InitEnv(MaxEvents + 1, [s \in Sockets |-> "A"]) /\ ActiveChat

SpecSeq == InitSeq /\ [][Inbound]_vars

\* Failures: rejected storage calls and events without payload, next to the
\* inbound events of InitChat.
Failures == \E n \in TaskIds : SendFail(n) \/ MarkReadFail(n) \/ JoinFail(n)

NoPayloads ==
  \E s \in Sockets :
    \/ SendMessageNoPayload(s)
    \/ MarkReadNoPayload(s)
    \/ JoinChatNoPayload(s)
    \/ TypingNoPayload(s)

NextFail == Inbound \/ Failures \/ NoPayloads

SpecFail == InitSeq /\ [][NextFail]_vars

\* One connection from handshake to disconnect with its inbound events: a
\* fresh start where the handshakes of s2 and s3 were refused, u1 may create
\* the group chat 1 alone, and s1 may send events before its handlers are
\* attached.
InitSolo ==
  /\ InitEnv(MaxEvents + 1, [s \in Sockets |-> "A"])
  /\ users = [u \in Users |-> [isOnline |-> FALSE, lastSeen |-> 0]]
  /\ chats = <<>>
  /\ messages = <<>>
  /\ userSockets = <<>>
  /\ pc = [s \in Sockets |-> IF s = "s1" THEN "new" ELSE "rejected"]
  /\ open = [s \in Sockets |-> FALSE]
  /\ rooms = [s \in Sockets |-> {}]
  /\ tasks = <<>>
  /\ emitted = <<>>
  /\ presence = <<>>

EarlyEvents ==
  \E s \in Sockets, kind \in Kinds, c \in ChatIds : EarlyEvent(s, kind, c)

NextSolo == Lifecycle \/ Inbound \/ EarlyEvents \/ createChat("u1", {}, TRUE)

SpecSolo == InitSolo /\ [][NextSolo]_vars

\* the continuations of suspended handlers: the event loop runs each one
\* once its storage call has resolved
Resumes ==
  \/ \E s \in Sockets :
       ConnRegister(s) \/ ConnJoinRooms(s) \/ DisconnectOffline(s)
  \/ \E n \in TaskIds :
       \/ SendFindChat(n) \/ SendHasParticipant(n) \/ SendCreate(n)
       \/ SendSave(n) \/ SendBroadcast(n) \/ MarkReadDone(n)
       \/ JoinFindChat(n) \/ JoinHasParticipant(n)

FairSolo == SpecSolo /\ WF_vars(Resumes)

\* Chat creation: POST /chats of any requester for any participants, from
\* an empty Chats table.
Creates ==
  \E u \in Users, ids \in SUBSET Accounts, g \in BOOLEAN :
    createChat(u, ids, g)

SpecCreate == Init /\ [][Creates]_vars

\* Start-up: two processes start, each from one of the entry points and
\* with Redis reachable or not; u1 and u2 share chat 1, s1 (u1) and s3 (u2)
\* land on process A, s2 (u1) on process B.
InitBoot ==
  /\ quota = MaxEvents
  /\ now = 0
  /\ stamp = [s \in Sockets |-> 0]
  /\ proc = [s \in Sockets |-> IF s = "s2" THEN "B" ELSE "A"]
  /\ peerSockets = <<>>
  /\ reply = NoReply
  /\ server = [p \in Procs |-> "starting"]
  /\ client = NewClient
  /\ users = [u \in Users |-> [isOnline |-> FALSE, lastSeen |-> 0]]
  /\ chats = <<[isGroup |-> FALSE, participants |-> {"u1", "u2"},
                lastMessageAt |-> 0]>>
  /\ messages = <<>>
  /\ userSockets = <<>>
  /\ pc = [s \in Sockets |-> "new"]
  /\ open = [s \in Sockets |-> FALSE]
  /\ rooms = [s \in Sockets |-> {}]
  /\ tasks = <<>>
  /\ emitted = <<>>
  /\ presence = <<>>

Starts ==
  \E p \in Procs, entry \in Entries, redisUp \in BOOLEAN :
    Start(p, entry, redisUp)

Opens ==
  \E s \in Sockets : Connect(s) \/ ConnRegister(s) \/ ConnJoinRooms(s)

NextBoot == Starts \/ Opens \/ Inbound

SpecBoot == InitBoot /\ [][NextBoot]_vars

\* The client: every use of one SocketClient from its construction.
NextClient ==
  \/ ClientConnect
  \/ ClientDisconnect
  \/ \E cb \in Callbacks : ClientOn(cb) \/ ClientOff(cb)
  \/ \E k \in 1..MaxSocks :
       ClientConnected(k) \/ ClientReconnect(k) \/ ClientReceive(k)

SpecClient == Init /\ [][NextClient]_vars

\* ================================================================ claims
UserSocketIds(u) == {s \in Sockets : SocketUser(s) = u}
OnlineEvents(u) ==
  {i \in DOMAIN presence : presence[i].userId = u /\ presence[i].isOnline}
OfflineEvents(u) ==
  {i \in DOMAIN presence : presence[i].userId = u /\ ~presence[i].isOnline}
connectionsFor(u) == IF u \in DOMAIN userSockets THEN userSockets[u] ELSE {}
IsMember(s, c) == ChatExists(c) /\ hasParticipant(c, SocketUser(s))
\* the events appended to `emitted` by the current step
NewEvents == {emitted'[i] : i \in DOMAIN emitted' \ DOMAIN emitted}

\* C1: while every connection an identity has opened so far is registered
\* (so its connection count left 0 exactly once), exactly one
\* user_status_change{isOnline: true} has been emitted for it: the online
\* event fires once per 0->1 edge, not once per connection.
C1_OneOnlinePerEdge ==
  \A u \in Users :
    (/\ u \in DOMAIN userSockets
     /\ \A s \in UserSocketIds(u) :
          pc[s] \in {"new", "update"} \/ s \in userSockets[u])
      => Cardinality(OnlineEvents(u)) = 1

C3_RegistryNoEmptySet ==
  /\ DOMAIN userSockets \subseteq Users
  /\ \A u \in Users : (u \in DOMAIN userSockets) <=> (connectionsFor(u) # {})
  /\ \A u \in DOMAIN userSockets : userSockets[u] # {}

\* the last connection of one identity was unregistered (key deleted) while
\* another identity is still registered
C3_Witness ==
  /\ \E s \in Sockets :
       /\ pc[s] \in {"offlineUpdate", "closed"}
       /\ SocketUser(s) \notin DOMAIN userSockets
  /\ \E u \in DOMAIN userSockets : userSockets[u] # {}

\* C4: when the membership check of a send_message finds that the sender is
\* not a participant, the handler ends there: no message is stored, the only
\* event emitted is one error to the sending connection, and nothing is
\* emitted for that send_message afterwards.
C4_NonMemberSendRejected ==
  [][\A n \in DOMAIN tasks :
       /\ (/\ tasks[n].kind = "send_message"
           /\ tasks[n].at = "hasParticipant"
           /\ tasks'[n].at # "hasParticipant"
           /\ ~IsMember(tasks[n].sock, tasks[n].chatId)) =>
            /\ tasks'[n].at = "done"
            /\ messages' = messages
            /\ emitted' = Append(emitted,
                 [ev |-> "error", seq |-> n,
                  to |-> IF open[tasks[n].sock] THEN {tasks[n].sock} ELSE {},
                  msgId |-> 0, message |-> "No tienes acceso a este chat"])
       /\ (tasks[n].at = "done") => \A e \in NewEvents : e.seq # n
    ]_vars

\* a send_message of a non-participant got its error while another
\* connection of the sender is open and in the chat's room
C4_Witness ==
  \E i \in DOMAIN emitted :
    LET t == tasks[emitted[i].seq] IN
    /\ emitted[i].ev = "error"
    /\ t.kind = "send_message"
    /\ emitted[i].message = "No tienes acceso a este chat"
    /\ emitted[i].to = {t.sock}
    /\ \E s \in RoomTargets(t.chatId) :
         s # t.sock /\ SocketUser(s) = SocketUser(t.sock)
    /\ \A j \in DOMAIN emitted : emitted[j].ev # "new_message"

\* C5: every new_message that was emitted carries a message that is in
\* storage, in the chat and by the author of the send_message it comes from.
C5_BroadcastIsPersisted ==
  \A i \in DOMAIN emitted :
    emitted[i].ev = "new_message" =>
      /\ emitted[i].msgId \in DOMAIN messages
      /\ messages[emitted[i].msgId].chatId = tasks[emitted[i].seq].chatId
      /\ messages[emitted[i].msgId].userId
           = SocketUser(tasks[emitted[i].seq].sock)

\* a new_message was delivered to some session
C5_Witness ==
  \E i \in DOMAIN emitted :
    emitted[i].ev = "new_message" /\ emitted[i].to # {}

\* C6: every new_message is delivered to every open connection whose
\* identity is a participant of the chat at the moment of the broadcast.
C6_AllMemberSessionsReceive ==
  [][\A e \in NewEvents :
       e.ev = "new_message" =>
         \A s \in Sockets :
           (open[s] /\ IsMember(s, tasks[e.seq].chatId)) => s \in e.to
    ]_vars

\* C7: a new_message, user_typing or messages_read event is delivered only
\* to connections whose identity is a participant of the chat at the moment
\* of publication.
C7_OnlyMemberSessionsReceive ==
  [][\A e \in NewEvents :
       e.ev \in {"new_message", "user_typing", "messages_read"} =>
         \A s \in e.to : IsMember(s, tasks'[e.seq].chatId)
    ]_vars

C9_NonMemberMarkReadIgnored ==
  [][\A n \in DOMAIN tasks :
       (/\ tasks[n].kind = "mark_read"
        /\ tasks[n].at = "update"
        /\ tasks'[n].at # "update"
        /\ ~IsMember(tasks[n].sock, tasks[n].chatId)) =>
         /\ messages' = messages
         /\ \A e \in NewEvents : e.ev = "messages_read" => e.to = {}
    ]_vars

\* C10: a typing event of a non-participant delivers no user_typing event to
\* any session.
C10_NonMemberTypingIgnored ==
  [][\A e \in NewEvents :
       (/\ e.ev = "user_typing"
        /\ ~IsMember(tasks'[e.seq].sock, tasks'[e.seq].chatId)) => e.to = {}
    ]_vars

\* the positions of the events appended to `emitted` by the current step
NewEventIdx == DOMAIN emitted' \ DOMAIN emitted

\* C11: when the Message.update of a participant's mark_read resolves, every
\* message of the chat written by somebody else is read afterwards, each
\* open connection of the other participants receives exactly one
\* messages_read, and no connection of the reader's identity (the sending
\* one or another one) receives it.
C11_MarkReadReachesOthersOnly ==
  [][\A n \in DOMAIN tasks :
       (/\ tasks[n].kind = "mark_read"
        /\ tasks[n].at = "update"
        /\ tasks'[n].at # "update"
        /\ IsMember(tasks[n].sock, tasks[n].chatId)) =>
         LET u == SocketUser(tasks[n].sock)
             c == tasks[n].chatId
             got(s) == {i \in NewEventIdx :
                          /\ emitted'[i].ev = "messages_read"
                          /\ emitted'[i].seq = n
                          /\ s \in emitted'[i].to}
         IN /\ \A i \in DOMAIN messages :
                 (messages[i].chatId = c /\ messages[i].userId # u)
                   => messages'[i].read
            /\ \A s \in Sockets :
                 IF SocketUser(s) = u
                   THEN got(s) = {}
                   ELSE (open[s] /\ IsMember(s, c)) => Cardinality(got(s)) = 1
    ]_vars

\* C12: a user_typing event of a participant is delivered to the open
\* connections of the other participants of the chat and to no connection of
\* the typing identity, its other open connections in the room included.
C12_TypingReachesOthersOnly ==
  [][\A i \in NewEventIdx :
       LET e == emitted'[i]
           u == SocketUser(tasks'[e.seq].sock)
           c == tasks'[e.seq].chatId
       IN (e.ev = "user_typing" /\ IsMember(tasks'[e.seq].sock, c)) =>
            \A s \in Sockets :
              IF SocketUser(s) = u
                THEN s \notin e.to
                ELSE (open[s] /\ IsMember(s, c)) => s \in e.to
    ]_vars

\* C14: unregistering is idempotent: a 'disconnect' notification for a
\* connection that is no longer in the registry changes nothing in either
\* Map, emits no user_status_change, writes nothing to storage and starts no
\* offline update, whether or not its identity has other live connections.
C14_UnregisterIdempotent ==
  [][quota' < quota =>
       UNCHANGED <<users, userSockets, peerSockets, presence, emitted, pc,
                   stamp, rooms, open>>
    ]_vars

\* a repeated notification came for s1, closed and unregistered, while s2 of
\* the same identity is registered, and after the identity u2 went offline
C14_Witness ==
  /\ quota < MaxEvents
  /\ pc["s1"] = "closed"
  /\ connectionsFor("u1") = {"s2"}
  /\ pc["s3"] = "closed"
  /\ "u2" \notin DOMAIN userSockets

\* C16: a handshake the middleware refuses (no token, a token that does not
\* verify, a token of an unknown user) never reaches the connection handler:
\* the refusal changes no storage row, registry, room or presence event, and
\* a refused connection is never open, registered, in a room or the origin of
\* a user_status_change.
C16_RejectedNeverRegistered ==
  [][\A s \in Sockets :
       /\ (pc[s] = "new" /\ pc'[s] = "rejected") =>
            UNCHANGED <<users, userSockets, peerSockets, rooms, presence,
                        open>>
       /\ (pc[s] = "rejected") => pc'[s] = "rejected"
       /\ (pc'[s] = "rejected") =>
            /\ ~open'[s]
            /\ rooms'[s] = {}
            /\ \A u \in Users :
                 /\ u \in DOMAIN userSockets' => s \notin userSockets'[u]
                 /\ u \in DOMAIN peerSockets' => s \notin peerSockets'[u]
            /\ \A i \in DOMAIN presence' : presence'[i].by # s
    ]_vars

\* s1 was refused while s2, of the same identity, was accepted and registered
C16_Witness ==
  /\ pc["s1"] = "rejected"
  /\ connectionsFor("u1") = {"s2"}
  /\ users["u1"].isOnline
  /\ Cardinality(OnlineEvents("u1")) = 1

\* C15: when the last connection of an identity has disconnected, the
\* lastSeen of the offline user_status_change is in storage when the event is
\* emitted: the event carries the lastSeen that the Users row holds, and the
\* row says isOnline false.
C15_OfflineCarriesStoredLastSeen ==
  [][\A i \in DOMAIN presence' \ DOMAIN presence :
       ~presence'[i].isOnline =>
         /\ ~users'[presence'[i].userId].isOnline
         /\ users'[presence'[i].userId].lastSeen = presence'[i].lastSeen
    ]_vars

\* C17: when an awaited storage call of a send_message, mark_read or
\* join_chat handler rejects, the only event emitted for that inbound event
\* is one error to the originating connection, nothing is written or
\* broadcast, and the connection stays open with its handlers and rooms.
C17_StorageFailureReported ==
  [][\A n \in DOMAIN tasks :
       (tasks[n].at # "failed" /\ tasks'[n].at = "failed") =>
         /\ \E text \in {"Error al enviar mensaje", "Error al unirse al chat",
                         "Error al marcar como leido"} :
              emitted' = Append(emitted,
                [ev |-> "error", seq |-> n, to |-> {tasks[n].sock},
                 msgId |-> 0, message |-> text])
         /\ messages' = messages
         /\ open'[tasks[n].sock] /\ pc'[tasks[n].sock] = "active"
         /\ rooms' = rooms
    ]_vars

\* C20: a failure inside the handler of one inbound event (a rejected storage
\* call, an event without payload) is contained: the connections stay open,
\* both registries and every connection's rooms and handlers are as before.
C20_HandlerFailureContained ==
  [][(\E n \in DOMAIN tasks' :
        /\ tasks'[n].at \in {"failed", "crashed"}
        /\ (n \in DOMAIN tasks => tasks[n].at \notin {"failed", "crashed"}))
       => UNCHANGED <<userSockets, peerSockets, rooms, open, pc>>
    ]_vars

\* C13: two send_message events of one connection for one chat are broadcast
\* as new_message in the order in which they arrived, whatever the order in
\* which their storage calls resolve.
C13_BroadcastInArrivalOrder ==
  \A i, j \in DOMAIN emitted :
    (/\ emitted[i].ev = "new_message"
     /\ emitted[j].ev = "new_message"
     /\ tasks[emitted[i].seq].sock = tasks[emitted[j].seq].sock
     /\ tasks[emitted[i].seq].chatId = tasks[emitted[j].seq].chatId
     /\ emitted[i].seq < emitted[j].seq)
      => i < j

\* C18: a session receives at most once what one inbound event publishes,
\* and each stored message at most once as new_message, also when its
\* connection sent join_chat for a room it was already in.
C18_DeliveredAtMostOnce ==
  \A s \in Sockets :
    \A i, j \in DOMAIN emitted :
      (/\ i # j
       /\ s \in emitted[i].to \cap emitted[j].to
       /\ emitted[i].ev = emitted[j].ev
       /\ emitted[i].ev # "error")
        => /\ emitted[i].seq # emitted[j].seq
           /\ emitted[i].ev = "new_message"
                => emitted[i].msgId # emitted[j].msgId

\* s1, in room chat:1 since it connected, sent join_chat for chat 1, which
\* succeeded, and has received the new_message of a send_message that
\* arrived after the join_chat
C18_Witness ==
  \E n \in DOMAIN tasks, i \in DOMAIN emitted :
    /\ tasks[n].kind = "join_chat" /\ tasks[n].sock = "s1"
    /\ tasks[n].chatId = 1 /\ tasks[n].at = "done"
    /\ \A k \in DOMAIN emitted : emitted[k].seq # n
    /\ emitted[i].ev = "new_message"
    /\ emitted[i].seq > n
    /\ tasks[emitted[i].seq].chatId = 1
    /\ "s1" \in emitted[i].to
    /\ 1 \in rooms["s1"]

\* C19: with more than one server process, the disconnect of a connection
\* starts the offline update of its identity (isOnline false in storage, then
\* the offline user_status_change) only when the identity has no registered
\* connection left on any process.
C19_OfflineOnlyWhenGoneEverywhere ==
  [][\A s \in Sockets :
       (Active(s) /\ ~open'[s] /\ pc'[s] = "offlineUpdate") =>
         {x \in Sockets :
            /\ SocketUser(x) = SocketUser(s)
            /\ \/ SocketUser(s) \in DOMAIN userSockets'
                    /\ x \in userSockets'[SocketUser(s)]
               \/ SocketUser(s) \in DOMAIN peerSockets'
                    /\ x \in peerSockets'[SocketUser(s)]} = {}
    ]_vars

\* C27: a send_message whose handling ended with the error 'Error al enviar
\* mensaje' left storage as it was: there is no message row of that event
\* and the chat's lastMessageAt was not set by it.
C27_FailedSendStoresNothing ==
  \A i \in DOMAIN emitted :
    (emitted[i].ev = "error"
       /\ emitted[i].message = "Error al enviar mensaje") =>
      LET t == tasks[emitted[i].seq] IN
      /\ t.msgId \notin DOMAIN messages
      /\ t.chatId \in DOMAIN chats =>
           (chats[t.chatId].lastMessageAt = 0
              \/ chats[t.chatId].lastMessageAt # t.msgId)

\* C25: once no connection or disconnect handler is suspended, the isOnline
\* flag stored for an identity, and the isOnline of the last
\* user_status_change emitted for it, say whether the identity has an entry
\* in userSockets, also when the disconnect of its last connection
\* interleaved with a new connection of it.
C25_PresenceSettlesToRegistry ==
  (\A s \in Sockets : pc[s] \in {"new", "rejected", "active", "closed"}) =>
    \A u \in Users :
      /\ (OnlineEvents(u) \cup OfflineEvents(u) # {}) =>
           /\ users[u].isOnline = (u \in DOMAIN userSockets)
           /\ LET last == CHOOSE i \in OnlineEvents(u) \cup OfflineEvents(u) :
                            \A j \in OnlineEvents(u) \cup OfflineEvents(u) :
                              j <= i
              IN presence[last].isOnline = (u \in DOMAIN userSockets)

\* C21: when the chat lookup of a send_message or join_chat finds no chat
\* with the id named, the handler ends there: the only event emitted is one
\* error 'Chat no encontrado' to the originating connection, no message is
\* stored, no room is joined, and nothing is emitted for that event later.
C21_UnknownChatRejected ==
  [][\A n \in DOMAIN tasks :
       /\ (/\ tasks[n].kind \in {"send_message", "join_chat"}
           /\ tasks[n].at = "findChat"
           /\ tasks'[n].at # "findChat"
           /\ ~ChatExists(tasks[n].chatId)) =>
            /\ tasks'[n].at = "done"
            /\ messages' = messages /\ chats' = chats
            /\ rooms' = rooms
            /\ emitted' = Append(emitted,
                 [ev |-> "error", seq |-> n,
                  to |-> IF open[tasks[n].sock] THEN {tasks[n].sock} ELSE {},
                  msgId |-> 0, message |-> "Chat no encontrado"])
       /\ (tasks[n].at = "done") =>
            /\ tasks'[n] = tasks[n]
            /\ \A i \in NewEventIdx : emitted'[i].seq # n
    ]_vars

\* while no chat existed, s1 sent a send_message and a join_chat for chat 1:
\* each got its error, nothing is stored and s1 is in no room
C21_Witness ==
  /\ chats = <<>> /\ messages = <<>> /\ rooms["s1"] = {}
  /\ \A kind \in {"send_message", "join_chat"} :
       \E i \in DOMAIN emitted :
         /\ emitted[i].ev = "error"
         /\ emitted[i].message = "Chat no encontrado"
         /\ emitted[i].to = {"s1"}
         /\ tasks[emitted[i].seq].kind = kind

\* C23: an inbound event gets a handler invocation only when it arrives on
\* a connection that is open, whose connection handler has finished and
\* which is in the registry of its identity; an event that arrives earlier
\* is never processed, and an event is never taken from a closed connection.
C23_EventsOnlyWhenActive ==
  [][/\ \A n \in DOMAIN tasks' \ DOMAIN tasks :
          LET s == tasks'[n].sock IN
          /\ open[s] /\ pc[s] \notin {"new", "rejected", "closed"}
          /\ tasks'[n].at # "dropped" =>
               /\ pc[s] = "active"
               /\ SocketUser(s) \in DOMAIN Registry(proc[s])
               /\ s \in Registry(proc[s])[SocketUser(s)]
     /\ \A n \in DOMAIN tasks :
          tasks[n].at = "dropped" =>
            /\ tasks'[n] = tasks[n]
            /\ \A i \in NewEventIdx : emitted'[i].seq # n
    ]_vars

\* an event of s1 that arrived before its handlers were attached was
\* dropped, a later send_message of s1 was processed and broadcast, and s1
\* has disconnected
C23_Witness ==
  /\ Len(tasks) = 2
  /\ tasks[1].sock = "s1" /\ tasks[1].at = "dropped"
  /\ tasks[2].sock = "s1" /\ tasks[2].kind = "send_message"
  /\ tasks[2].at = "done"
  /\ \E i \in DOMAIN emitted :
       emitted[i].ev = "new_message" /\ emitted[i].seq = 2
  /\ pc["s1"] = "closed"

\* C24: a connection that has closed after its handshake was accepted is
\* eventually out of the registry, and when its identity has no registered
\* connection left the identity is eventually announced and stored offline.
C24_ClosedIsEventuallyUnregistered ==
  \A s \in Sockets :
    (~open[s] /\ pc[s] \notin {"new", "rejected"})
      ~> (/\ s \notin connectionsFor(SocketUser(s))
          /\ connectionsFor(SocketUser(s)) = {} =>
               /\ ~users[SocketUser(s)].isOnline
               /\ Cardinality(OfflineEvents(SocketUser(s)))
                    >= Cardinality(OnlineEvents(SocketUser(s))))

\* C26: every send_message received from an accepted connection eventually
\* has exactly one outcome, a new_message broadcast or an error event, unless
\* the connection closes, also when it arrived before the connection handler
\* finished its set-up.
C26_SendMessageHasOutcome ==
  \A n \in TaskIds :
    (n \in DOMAIN tasks /\ tasks[n].kind = "send_message")
      ~> (\/ n \in DOMAIN tasks /\ ~open[tasks[n].sock]
          \/ Cardinality({i \in DOMAIN emitted :
                            /\ emitted[i].seq = n
                            /\ emitted[i].ev \in {"new_message", "error"}})
               = 1)

\* C28: the latest answer of POST /chats is an existing chat (200) only for
\* a non-group chat whose participants are exactly the two users of the
\* request; otherwise it is a new chat (201) whose participants are exactly
\* the requested ids and the requester.
C28_ExistingChatIsTheSamePair ==
  /\ reply.status \in {0, 200, 201}
  /\ reply.status = 200 =>
       /\ ~reply.isGroup /\ Cardinality(reply.ids) = 2
       /\ ~chats[reply.chat].isGroup
       /\ chats[reply.chat].participants = reply.ids
  /\ reply.status = 201 =>
       /\ reply.chat = Len(chats)
       /\ chats[reply.chat].participants = reply.ids
       /\ chats[reply.chat].isGroup = reply.isGroup

\* C29: for each occurrence of the event that the client receives, every
\* callback runs once per registration it has at that moment: registered
\* with on() before or after connect(), not removed by off() or disconnect().
C29_CallbackOncePerOccurrence ==
  [][client'.occ > client.occ =>
       \A cb \in Callbacks :
         client'.calls[cb] = Count(client.eventHandlers, cb)
    ]_vars

\* C30: a SocketClient never has more than one Socket connecting or
\* connected.
C30_OneSocketPerClient ==
  Cardinality({k \in DOMAIN client.socks :
                 client.socks[k].state \in {"connecting", "connected"}}) <= 1

\* C22: a process that cannot reach Redis does not exit, and a send_message
\* handled on a process running without Redis is answered with no
\* 'Error al enviar mensaje' and its new_message reaches every connection
\* in the chat's room on that same process.
C22_RunsWithoutRedis ==
  [][ /\ \A p \in Procs : server'[p] # "exited"
      /\ \A e \in NewEvents :
           LET t == tasks'[e.seq] IN
           (t.kind = "send_message" /\ server[proc[t.sock]] = "local") =>
             /\ e.ev = "error" => e.message # "Error al enviar mensaje"
             /\ e.ev = "new_message" =>
                  {s \in RoomTargets(t.chatId) : proc[s] = proc[t.sock]}
                    \subseteq e.to
    ]_vars
====
